---- MODULE Spec2Model ----
(***************************************************************************)
(* Galooli pull integration: the poll cycle of action_pull_observations    *)
(* (app/actions/handlers.py), the device-status filter                     *)
(* filter_observations_by_device_status and the record converter           *)
(* (app/actions/utils.py), and the vendor client get_observations          *)
(* (app/actions/client.py).                                                *)
(*                                                                         *)
(* Spec       : the poll cycle of one integration, cycles run one after    *)
(*              another (crontab schedule), every await a step.           *)
(* SpecRecords: the same poll cycle fed with the DataSets that carry falsy  *)
(*              cells and repeated "off" reports (RecordDataSets).        *)
(* SpecClient : one call of client.get_observations with its retry loop.   *)
(* SpecConvert: the record conversion under every configured gmt_offset.   *)
(* SpecAuth   : action_auth on top of the client call; SpecAuthPersisted   *)
(*              the same on an integration with stored state.              *)
(* SpecFilter : two poll cycles at once, every state-manager await a step. *)
(* SpecFilterCall: one call of the filter on a persisted state.            *)
(* SpecCancel : the poll cycle with cancellation at its network awaits.    *)
(*                                                                         *)
(* handlers.py calls client.get_observations(url, username=, password=,    *)
(* start=) and reads ['CommonResult']['DataSet'] and ['MaxGmtUpdateTime']  *)
(* from a truthy result; the poll cycle is modelled against that call      *)
(* site (ClientResults), the client itself from client.py as it stands.    *)
(***************************************************************************)
EXTENDS Integers, Sequences, FiniteSets, TLC

VARIABLES
    store,                  \* IntegrationStateManager: key -> [value, ttl]
    pc,                     \* position of action_pull_observations
    now,                    \* datetime.now(timezone.utc) read by the cycle
    start,                  \* window start of the cycle
    response,               \* what client.get_observations gave the cycle
    batches,                \* batches of the cycle not yet sent
    observations_extracted, \* handlers.py:56
    result,                 \* how the last cycle ended
    observations,           \* converted observations of the cycle
    filtered,               \* filter output of the cycle
    trace,                  \* one entry per observation the filter processed
    sends,                  \* the sink calls of the cycle: [batch, accepted]
    store0,                 \* the store as the cycle found it
    lost,                   \* forwarded by the filter of a failed cycle, never accepted
    request,                \* what the cycle passed to client.get_observations
    feed,                   \* which DataSets the vendor serves in this run
    cpc,                    \* position of client.get_observations
    attempts,               \* requests issued by the call
    http,                   \* the vendor's answer to the last request
    cresult,                \* how the call ended
    tried,                  \* how each attempt of the call ended, in order
    inflight,               \* requests issued and not yet answered
    wait,                   \* the sleep before the next attempt
    conversion,             \* the last conversion: its record, offset and output
    auth,                   \* the last action_auth: the fetch's end and its answer
    mode,                   \* how the concurrent filter runs are scheduled
    worlds,                 \* the state stores the filter runs work on
    procs,                  \* each filter run: its inputs, position and outputs
    clock,                  \* the wall clock seen by the filter runs
    flog,                   \* every device-state access and forward, in order
    fcall                   \* the last call of the filter: its inputs and output

cycleVars == <<store, pc, now, start, response, batches, observations_extracted,
               result, observations, filtered, trace, sends, store0, lost, request,
               feed>>
clientVars == <<cpc, attempts, http, cresult, tried, inflight, wait>>
filterVars == <<mode, worlds, procs, clock, flog>>
auxVars == <<conversion, auth, filterVars, fcall>>
vars == <<cycleVars, clientVars, auxVars>>

---------------------------------------------------------------------------
(* Bounds of the model *)

MaxLen == 2             \* longest enumerated vendor DataSet
BulkLen == 250          \* length of the one long DataSet (more than a batch)
MaxAttempts == 10       \* attempt cap of the retry loop (the source sets none)

(* Program constants *)

BatchSize == 200
DefaultLookBackHours == 4

---------------------------------------------------------------------------
(* Python values *)

EmptyDict == <<>>
Truthy(d) == DOMAIN d # {}
DictGet(d, k) == IF k \in DOMAIN d THEN d[k] ELSE "None"

None == [t |-> "null"]
Num(n) == [t |-> "num", v |-> n]
Str(s) == [t |-> "str", v |-> s]

Range(s) == {s[i] : i \in 1..Len(s)}

SeqsUpTo(S, n) == UNION {[1..k -> S] : k \in 0..n}

---------------------------------------------------------------------------
(* IntegrationStateManager (app.services.state): a key-value store keyed by *)
(* integration id, action id and source id; get_state gives {} for a       *)
(* missing key.                                                            *)

Integrations == {"i1", "i2"}
Sensors == {"s1", "s2"}
Statuses == {"Moving", "off"}
NoSource == "no-source"
PullAction == "pull_observations"

(* "0" is the source a numeric sensor id 0 has after the CSV round trip.    *)
Keys == Integrations \X {PullAction} \X (Sensors \cup {"0", NoSource})

NoTTL == {}
Absent == [value |-> EmptyDict, ttl |-> NoTTL]

get_state(st, integration_id, action_id, source_id) ==
    st[<<integration_id, action_id, source_id>>].value

set_state(st, integration_id, action_id, source_id, state, ttl) ==
    [st EXCEPT ![<<integration_id, action_id, source_id>>] =
        [value |-> state, ttl |-> ttl]]

---------------------------------------------------------------------------
(* Vendor data: the rows of CommonResult.DataSet.  A row is kept by its    *)
(* named fields and its arity; cells are JSON values.                      *)

GpsTimes == {"10:00"}
GmtOffsets == {-5}
LookBacks == {DefaultLookBackHours}

Row(n, sensor_id, time, status, latitude, longitude) ==
    [arity |-> n, sensor_id |-> sensor_id, time |-> time, status |-> status,
     latitude |-> latitude, longitude |-> longitude]

ValidRows == {Row(9, Str(s), Str(t), Str(u), Num(40), Num(-74)) :
                s \in Sensors, t \in GpsTimes, u \in Statuses}
NoLatitudeRow == Row(9, Str("s1"), Str("10:00"), Str("Moving"), None, Num(-74))
ShortRow == Row(8, Str("s1"), Str("10:00"), Str("Moving"), Num(40), Num(-74))
Rows == ValidRows \cup {NoLatitudeRow, ShortRow}

(* One long DataSet: the same sensor changing status at every row.         *)
Alternating(n) ==
    [i \in 1..n |-> Row(9, Str("s1"), Str("10:00"),
                        Str(IF i % 2 = 1 THEN "Moving" ELSE "off"), Num(40), Num(-74))]

(* One sensor reporting "off" twice, at different times.                   *)
OffTwice ==
    <<Row(9, Str("s1"), Str("10:00"), Str("off"), Num(40), Num(-74)),
      Row(9, Str("s1"), Str("11:00"), Str("off"), Num(40), Num(-74))>>

(* Rows of correct arity with one of sensor id, time, latitude, longitude  *)
(* null, empty or zero, each alone in a DataSet or after a valid row (a    *)
(* numeric time is left out: what dateparser makes of it is not modelled). *)
FalsyCells == {None, Str(""), Num(0)}
FalsyRows ==
    {Row(9, c, Str("10:00"), Str("Moving"), Num(40), Num(-74)) : c \in FalsyCells}
    \cup {Row(9, Str("s1"), c, Str("Moving"), Num(40), Num(-74)) : c \in {None, Str("")}}
    \cup {Row(9, Str("s1"), Str("10:00"), Str("Moving"), c, Num(-74)) : c \in FalsyCells}
    \cup {Row(9, Str("s1"), Str("10:00"), Str("Moving"), Num(40), c) : c \in FalsyCells}
FalsyDataSets ==
    {<<r>> : r \in FalsyRows}
    \cup {<<Row(9, Str("s2"), Str("10:00"), Str("off"), Num(40), Num(-74)), r>> :
            r \in FalsyRows}

DataSets == SeqsUpTo(Rows, MaxLen) \cup {Alternating(BulkLen)}
RecordDataSets == FalsyDataSets \cup {OffTwice}

(* csv.writer then seq.csv (handlers.py:85-92): every cell comes back as   *)
(* text, None as the empty text.                                           *)
CsvCell(x) ==
    CASE x.t = "null" -> Str("")
      [] x.t = "num" -> Str(ToString(x.v))
      [] x.t = "str" -> Str(x.v)

CsvRow(r) ==
    [arity |-> r.arity, sensor_id |-> CsvCell(r.sensor_id), time |-> CsvCell(r.time),
     status |-> CsvCell(r.status), latitude |-> CsvCell(r.latitude),
     longitude |-> CsvCell(r.longitude)]

PyTruthy(x) ==
    CASE x.t = "null" -> FALSE
      [] x.t = "num" -> x.v # 0
      [] x.t = "str" -> x.v # ""

(* Mutant: a record of the wrong arity is skipped like an invalid one.     *)
convert_to_er_observation_SkipsBadArity(galooli_record, reports_timezone) ==
    IF /\ galooli_record.arity = 9
       /\ PyTruthy(galooli_record.latitude)
       /\ PyTruthy(galooli_record.longitude)
       /\ PyTruthy(galooli_record.time)
       /\ PyTruthy(galooli_record.sensor_id)
    THEN [kind |-> "obs",
          obs |-> [source |-> galooli_record.sensor_id.v,
                   type |-> "tracking-device",
                   recorded_at |-> [wall |-> galooli_record.time.v,
                                    offset |-> reports_timezone],
                   location |-> [lat |-> galooli_record.latitude.v,
                                 lon |-> galooli_record.longitude.v],
                   additional |-> [status |-> galooli_record.status.v]]]
    ELSE [kind |-> "none"]

(* Mutant: the validity gate is missing.                                   *)
convert_to_er_observation_NoValidityGate(galooli_record, reports_timezone) ==
    IF galooli_record.arity # 9
    THEN [kind |-> "raise", exc |-> "ValueError"]
    ELSE [kind |-> "obs",
          obs |-> [source |-> galooli_record.sensor_id.v,
                   type |-> "tracking-device",
                   recorded_at |-> [wall |-> galooli_record.time.v,
                                    offset |-> reports_timezone],
                   location |-> [lat |-> galooli_record.latitude.v,
                                 lon |-> galooli_record.longitude.v],
                   additional |-> [status |-> galooli_record.status.v]]]

(* utils.convert_to_er_observation: unpack exactly nine fields, then the   *)
(* validity gate; recorded_at is the parsed wall time localized to the     *)
(* fixed offset (minutes).                                                 *)
convert_to_er_observation(galooli_record, reports_timezone) ==
    IF galooli_record.arity # 9
    THEN [kind |-> "raise", exc |-> "ValueError"]
    ELSE IF /\ PyTruthy(galooli_record.latitude)
            /\ PyTruthy(galooli_record.longitude)
            /\ PyTruthy(galooli_record.time)
            /\ PyTruthy(galooli_record.sensor_id)
         THEN [kind |-> "obs",
               obs |-> [source |-> galooli_record.sensor_id.v,
                        type |-> "tracking-device",
                        recorded_at |-> [wall |-> galooli_record.time.v,
                                         offset |-> reports_timezone],
                        location |-> [lat |-> galooli_record.latitude.v,
                                      lon |-> galooli_record.longitude.v],
                        additional |-> [status |-> galooli_record.status.v]]]
         ELSE [kind |-> "none"]

(* handlers.py:90-95: convert every row, drop the None results; a row that *)
(* raises aborts the whole conversion.                                     *)
(* The offset handed to FixedOffset in hours instead of minutes.           *)
ConvertDataset_OffsetInHours(dataset, gmt_offset) ==
    LET reports_timezone == gmt_offset
        conv == [i \in 1..Len(dataset) |->
                    convert_to_er_observation(CsvRow(dataset[i]), reports_timezone)]
        kept == SelectSeq(conv, LAMBDA c : c.kind = "obs")
    IN  IF \E i \in 1..Len(conv) : conv[i].kind = "raise"
        THEN [kind |-> "raise", exc |-> "ValueError"]
        ELSE [kind |-> "ok", observations |-> [i \in 1..Len(kept) |-> kept[i].obs]]

ConvertDataset(dataset, gmt_offset) ==
    LET reports_timezone == gmt_offset * 60
        conv == [i \in 1..Len(dataset) |->
                    convert_to_er_observation(CsvRow(dataset[i]), reports_timezone)]
        kept == SelectSeq(conv, LAMBDA c : c.kind = "obs")
    IN  IF \E i \in 1..Len(conv) : conv[i].kind = "raise"
        THEN [kind |-> "raise", exc |-> "ValueError"]
        ELSE [kind |-> "ok", observations |-> [i \in 1..Len(kept) |-> kept[i].obs]]

---------------------------------------------------------------------------
(* utils.filter_observations_by_device_status.  acc carries the store, the *)
(* filtered list and the log of set_state calls.                           *)

(* Mutant: the state is stored for a sensor without stored state only; a  *)
(* stored status is never overwritten.                                     *)
save_state_and_append_observation_KeepsStored(acc, integration_id, obs) ==
    LET state == [status |-> obs.additional.status]
        device_state == get_state(acc.store, integration_id, PullAction, obs.source)
    IN  IF Truthy(device_state)
        THEN [acc EXCEPT !.filtered = Append(acc.filtered, obs)]
        ELSE [acc EXCEPT
                !.store = set_state(acc.store, integration_id, PullAction,
                                    obs.source, state, NoTTL),
                !.writes = Append(acc.writes, <<obs.source, state, NoTTL>>),
                !.filtered = Append(acc.filtered, obs)]

(* Mutant: the observation is appended and its status is not stored.       *)
save_state_and_append_observation_NoWrite(acc, integration_id, obs) ==
    [acc EXCEPT !.filtered = Append(acc.filtered, obs)]

(* Mutant: the observation is put in front of the list instead of at its   *)
(* end.                                                                    *)
save_state_and_append_observation_Prepends(acc, integration_id, obs) ==
    LET state == [status |-> obs.additional.status]
    IN  [acc EXCEPT
            !.store = set_state(acc.store, integration_id, PullAction, obs.source,
                                state, NoTTL),
            !.writes = Append(acc.writes, <<obs.source, state, NoTTL>>),
            !.filtered = <<obs>> \o acc.filtered]

(* Mutant: the state is written under one integration's key, whoever runs. *)
save_state_and_append_observation_UnscopedKey(acc, integration_id, obs) ==
    LET state == [status |-> obs.additional.status]
    IN  [acc EXCEPT
            !.store = set_state(acc.store, "i1", PullAction, obs.source,
                                state, NoTTL),
            !.writes = Append(acc.writes, <<obs.source, state, NoTTL>>),
            !.filtered = Append(acc.filtered, obs)]

save_state_and_append_observation(acc, integration_id, obs) ==
    LET status == obs.additional.status
        state == [status |-> status]
    IN  [acc EXCEPT
            !.store = set_state(acc.store, integration_id, PullAction, obs.source,
                                state, NoTTL),
            !.writes = Append(acc.writes, <<obs.source, state, NoTTL>>),
            !.filtered = Append(acc.filtered, obs)]

(* Mutant: a sensor without stored state is skipped.                       *)
FilterOne_SkipsFirstSeen(acc, integration_id, obs) ==
    LET device_state == get_state(acc.store, integration_id, PullAction, obs.source)
    IN  IF Truthy(device_state)
        THEN IF DictGet(device_state, "status") = obs.additional.status
             THEN acc
             ELSE save_state_and_append_observation(acc, integration_id, obs)
        ELSE acc

(* Mutant: the stored status is not compared, every observation is saved   *)
(* and appended.                                                           *)
FilterOne_AlwaysForward(acc, integration_id, obs) ==
    save_state_and_append_observation(acc, integration_id, obs)

(* Mutant: the stored status is read and then not looked at.               *)
FilterDecide_IgnoresStored(device_state, acc, integration_id, obs) ==
    save_state_and_append_observation(acc, integration_id, obs)

(* Mutant: stored state counts as expired once the wall clock has moved.   *)
FilterDecide_ExpiresState(device_state, acc, integration_id, obs) ==
    IF Truthy(device_state) /\ clock = 0
    THEN IF DictGet(device_state, "status") = obs.additional.status
         THEN acc
         ELSE save_state_and_append_observation(acc, integration_id, obs)
    ELSE save_state_and_append_observation(acc, integration_id, obs)

(* utils.py:77-85: what the loop body does with the device_state it read.  *)
FilterDecide(device_state, acc, integration_id, obs) ==
    LET status == obs.additional.status
    IN  IF Truthy(device_state)
        THEN IF DictGet(device_state, "status") = status
             THEN acc
             ELSE save_state_and_append_observation(acc, integration_id, obs)
        ELSE save_state_and_append_observation(acc, integration_id, obs)

(* Mutant: the device state is read under the first sensor's key, whatever *)
(* sensor the observation belongs to.                                      *)
FilterOne_ReadsOneKey(acc, integration_id, obs) ==
    LET device_state == get_state(acc.store, integration_id, PullAction, "s1")
    IN  FilterDecide(device_state, acc, integration_id, obs)

FilterOne(acc, integration_id, obs) ==
    LET sensor_id == obs.source
        device_state == get_state(acc.store, integration_id, PullAction, sensor_id)
    IN  FilterDecide(device_state, acc, integration_id, obs)

(* One loop iteration, with the log entry of what it read and did.         *)
FilterStep(acc, integration_id, obs) ==
    LET key == <<integration_id, PullAction, obs.source>>
        nxt == FilterOne(acc, integration_id, obs)
    IN  [nxt EXCEPT !.trace = Append(acc.trace,
            [obs |-> obs,
             before |-> acc.store[key],
             after |-> nxt.store[key],
             forwarded |-> nxt.filtered # acc.filtered,
             appended |-> SubSeq(nxt.filtered, Len(acc.filtered) + 1, Len(nxt.filtered)),
             writes |-> SubSeq(nxt.writes, Len(acc.writes) + 1, Len(nxt.writes))])]

(* The for loop over obsSeq[lo..hi], in input order.  The range is split  *)
(* in halves and the first half is evaluated before the second is entered, *)
(* which keeps the evaluation shallow for a long input.                    *)
RECURSIVE FilterLoop(_, _, _, _, _)
FilterLoop(acc, integration_id, obsSeq, lo, hi) ==
    IF lo > hi THEN acc
    ELSE IF lo = hi THEN FilterStep(acc, integration_id, obsSeq[lo])
    ELSE LET mid == (lo + hi) \div 2
             left == FilterLoop(acc, integration_id, obsSeq, lo, mid)
         IN  IF Len(left.trace) = Len(acc.trace) + (mid - lo + 1)
             THEN FilterLoop(left, integration_id, obsSeq, mid + 1, hi)
             ELSE left

filter_observations_by_device_status(st, integration_id, obsSeq) ==
    LET acc0 == [store |-> st, filtered |-> <<>>, writes |-> <<>>, trace |-> <<>>]
    IN  IF obsSeq = <<>> THEN acc0 ELSE FilterLoop(acc0, integration_id, obsSeq, 1, Len(obsSeq))

(* app.services.utils.generate_batches: consecutive slices of n items.     *)
generate_batches(s, n) ==
    [i \in 1..((Len(s) + n - 1) \div n) |->
        SubSeq(s, (i - 1) * n + 1, IF i * n < Len(s) THEN i * n ELSE Len(s))]

RECURSIVE Flatten(_)
Flatten(ss) == IF ss = <<>> THEN <<>> ELSE Head(ss) \o Flatten(Tail(ss))

---------------------------------------------------------------------------
(* The poll cycle: action_pull_observations (handlers.py:50-131).          *)

Integration == "i1"
CheckpointKey == <<Integration, PullAction, NoSource>>

Nows == {10}                \* wall clock readings (hours)
VendorTimes == {9, 12}      \* MaxGmtUpdateTime values of the vendor (hours, GMT)

(* A timezone-aware datetime, and the text of a naive vendor timestamp.    *)
Aware(t) == [t |-> t, tz |-> 0]
VendorStamp(t) == [naive |-> t]

(* handlers.py:68: dp(text).replace(tzinfo=timezone.utc)                   *)
dp_utc(text) == [t |-> text.naive, tz |-> 0]

(* What the awaited client.get_observations gives its caller: one of the   *)
(* failures the handler names, a falsy value, or the vendor envelope.      *)
ClientExceptions == {"GalooliInvalidUserCredentialsException",
                     "GalooliGeneralErrorException",
                     "GalooliTooManyRequestsException",
                     "HTTPStatusError"}
Envelopes == {[kind |-> "envelope", DataSet |-> d, MaxGmtUpdateTime |-> VendorStamp(t)] :
                d \in (IF feed = "records" THEN RecordDataSets ELSE DataSets),
                t \in VendorTimes}
FalsyResponse == [kind |-> "falsy"]
NoResponse == [kind |-> "pending"]

Running == [kind |-> "running"]
Returned(n) == [kind |-> "returned", observations_extracted |-> n]
Raised(e, where) == [kind |-> "raised", exc |-> e, at |-> where]

(* send_observations_to_gundi answers with a list; its length is what the  *)
(* cycle counts.                                                           *)
SinkReports(batch) == {Len(batch)} \cup (IF Len(batch) > 1 THEN {Len(batch) - 1} ELSE {})

(* Mutant: the checkpoint is ignored, the window always starts the         *)
(* look-back hours before now.                                             *)
WindowStart_AlwaysLookBack(last_updated_time, t, look_back_window_hours) ==
    Aware(t - look_back_window_hours)

(* handlers.py:58-68 *)
WindowStart(last_updated_time, t, look_back_window_hours) ==
    IF ~Truthy(last_updated_time)
    THEN Aware(t - look_back_window_hours)
    ELSE dp_utc(last_updated_time.last_updated_time)

(* Mutant: the wall clock of the cycle is stored as the checkpoint.         *)
CheckpointState_WallClock(get_observations_response, t) ==
    [last_updated_time |-> VendorStamp(t.t)]

(* handlers.py:111-112 *)
CheckpointState(get_observations_response, t) ==
    [last_updated_time |-> get_observations_response.MaxGmtUpdateTime]

Accepted == SelectSeq(sends, LAMBDA c : c.accepted)
SentBatches == [i \in 1..Len(Accepted) |-> Accepted[i].batch]
Delivered == Range(Flatten(SentBatches))

(* Mutant: the checkpoint is advanced to the wall clock when the cycle     *)
(* starts.                                                                 *)
StartCycle_AdvancesCheckpoint ==
    /\ pc = "idle"
    /\ \E t \in Nows, h \in LookBacks :
          /\ now' = Aware(t)
          /\ start' = WindowStart(get_state(store, Integration, PullAction, NoSource), t, h)
    /\ request' = [start |-> start']
    /\ pc' = "fetch"
    /\ store0' = store
    /\ response' = NoResponse
    /\ batches' = <<>>
    /\ observations_extracted' = 0
    /\ result' = Running
    /\ observations' = <<>>
    /\ filtered' = <<>>
    /\ trace' = <<>>
    /\ sends' = <<>>
    /\ store' = set_state(store, Integration, PullAction, NoSource,
                          [last_updated_time |-> VendorStamp(now'.t)], NoTTL)
    /\ UNCHANGED <<lost, feed, clientVars, auxVars>>

StartCycle ==
    /\ pc = "idle"
    /\ \E t \in Nows, h \in LookBacks :
          /\ now' = Aware(t)
          /\ start' = WindowStart(get_state(store, Integration, PullAction, NoSource), t, h)
    /\ request' = [start |-> start']
    /\ pc' = "fetch"
    /\ store0' = store
    /\ response' = NoResponse
    /\ batches' = <<>>
    /\ observations_extracted' = 0
    /\ result' = Running
    /\ observations' = <<>>
    /\ filtered' = <<>>
    /\ trace' = <<>>
    /\ sends' = <<>>
    /\ UNCHANGED <<store, lost, feed, clientVars, auxVars>>

(* Mutant: the client's failure is logged and swallowed.                   *)
FetchRaises_Swallowed ==
    /\ pc = "fetch"
    /\ \E e \in ClientExceptions :
          /\ response' = [kind |-> "raise", exc |-> e]
          /\ result' = Returned(0)
    /\ pc' = "idle"
    /\ UNCHANGED <<store, now, start, batches, observations_extracted, observations,
                   filtered, trace, sends, store0, lost, request, feed, clientVars, auxVars>>

(* handlers.py:125-131: the client's failure is logged and re-raised.      *)
FetchRaises ==
    /\ pc = "fetch"
    /\ \E e \in ClientExceptions :
          /\ response' = [kind |-> "raise", exc |-> e]
          /\ result' = Raised(e, "fetch")
    /\ pc' = "idle"
    /\ UNCHANGED <<store, now, start, batches, observations_extracted, observations,
                   filtered, trace, sends, store0, lost, request, feed, clientVars, auxVars>>

(* handlers.py:122-124 *)
FetchFalsy ==
    /\ pc = "fetch"
    /\ response' = FalsyResponse
    /\ result' = Returned(0)
    /\ pc' = "idle"
    /\ UNCHANGED <<store, now, start, batches, observations_extracted, observations,
                   filtered, trace, sends, store0, lost, request, feed, clientVars, auxVars>>

(* Mutant: the filtered observations are sent as one batch.                 *)
AfterFetch_SingleBatch(env, gmt_offset) ==
    LET c == ConvertDataset(env.DataSet, gmt_offset)
    IN  IF c.kind = "raise"
        THEN /\ result' = Raised(c.exc, "convert")
             /\ pc' = "idle"
             /\ UNCHANGED <<store, batches, observations, filtered, trace>>
        ELSE /\ observations' = c.observations
             /\ result' = Running
             /\ IF c.observations # <<>>
                THEN LET f == filter_observations_by_device_status(
                                  store, Integration, c.observations)
                     IN  /\ store' = f.store
                         /\ filtered' = f.filtered
                         /\ trace' = f.trace
                         /\ batches' = IF f.filtered = <<>> THEN <<>> ELSE <<f.filtered>>
                         /\ pc' = IF f.filtered = <<>> THEN "checkpoint" ELSE "send"
                ELSE /\ pc' = "checkpoint"
                     /\ UNCHANGED <<store, batches, filtered, trace>>

(* Mutant: a cycle with nothing to send returns at once, before the        *)
(* checkpoint is saved.                                                    *)
AfterFetch_ReturnsWhenNothingToSend(env, gmt_offset) ==
    LET c == ConvertDataset(env.DataSet, gmt_offset)
    IN  IF c.kind = "raise"
        THEN /\ result' = Raised(c.exc, "convert")
             /\ pc' = "idle"
             /\ UNCHANGED <<store, batches, observations, filtered, trace>>
        ELSE /\ observations' = c.observations
             /\ IF c.observations # <<>>
                THEN LET f == filter_observations_by_device_status(
                                  store, Integration, c.observations)
                     IN  /\ store' = f.store
                         /\ filtered' = f.filtered
                         /\ trace' = f.trace
                         /\ batches' = generate_batches(f.filtered, BatchSize)
                         /\ pc' = IF f.filtered = <<>> THEN "idle" ELSE "send"
                         /\ result' = IF f.filtered = <<>> THEN Returned(0) ELSE Running
                ELSE /\ pc' = "idle"
                     /\ result' = Returned(0)
                     /\ UNCHANGED <<store, batches, filtered, trace>>

(* handlers.py:80-102: convert, filter, cut into batches.                  *)
AfterFetch(env, gmt_offset) ==
    LET c == ConvertDataset(env.DataSet, gmt_offset)
    IN  IF c.kind = "raise"
        THEN /\ result' = Raised(c.exc, "convert")
             /\ pc' = "idle"
             /\ UNCHANGED <<store, batches, observations, filtered, trace>>
        ELSE /\ observations' = c.observations
             /\ result' = Running
             /\ IF c.observations # <<>>
                THEN LET f == filter_observations_by_device_status(
                                  store, Integration, c.observations)
                     IN  /\ store' = f.store
                         /\ filtered' = f.filtered
                         /\ trace' = f.trace
                         /\ batches' = generate_batches(f.filtered, BatchSize)
                         /\ pc' = IF f.filtered = <<>> THEN "checkpoint" ELSE "send"
                ELSE /\ pc' = "checkpoint"
                     /\ UNCHANGED <<store, batches, filtered, trace>>

FetchEnvelope ==
    /\ pc = "fetch"
    /\ \E env \in Envelopes, g \in GmtOffsets :
          /\ response' = env
          /\ AfterFetch(env, g)
    /\ UNCHANGED <<now, start, observations_extracted, sends, store0, lost, request, feed, clientVars, auxVars>>

(* Mutant: the cycle counts the items it sent, not the items the sink      *)
(* reported.                                                               *)
SendBatch_CountsSent ==
    /\ pc = "send"
    /\ batches # <<>>
    /\ \E n \in SinkReports(Head(batches)) :
          /\ observations_extracted' = observations_extracted + Len(Head(batches))
          /\ sends' = Append(sends, [batch |-> Head(batches), accepted |-> TRUE,
                                     reported |-> n])
    /\ batches' = Tail(batches)
    /\ lost' = lost \ Range(Head(batches))
    /\ pc' = IF Tail(batches) = <<>> THEN "checkpoint" ELSE "send"
    /\ UNCHANGED <<store, now, start, response, result, observations, filtered, trace,
                   store0, request, feed, clientVars, auxVars>>

(* handlers.py:102-105: one batch accepted by the sink.                    *)
SendBatch ==
    /\ pc = "send"
    /\ batches # <<>>
    /\ \E n \in SinkReports(Head(batches)) :
          /\ observations_extracted' = observations_extracted + n
          /\ sends' = Append(sends, [batch |-> Head(batches), accepted |-> TRUE,
                                     reported |-> n])
    /\ batches' = Tail(batches)
    /\ lost' = lost \ Range(Head(batches))
    /\ pc' = IF Tail(batches) = <<>> THEN "checkpoint" ELSE "send"
    /\ UNCHANGED <<store, now, start, response, result, observations, filtered, trace,
                   store0, request, feed, clientVars, auxVars>>

(* Mutant: a failed send is skipped and the loop goes on.                  *)
SendBatchFails_Continues ==
    /\ pc = "send"
    /\ batches # <<>>
    /\ sends' = Append(sends, [batch |-> Head(batches), accepted |-> FALSE,
                                 reported |-> 0])
    /\ batches' = Tail(batches)
    /\ lost' = lost \cup Range(Head(batches))
    /\ pc' = IF Tail(batches) = <<>> THEN "checkpoint" ELSE "send"
    /\ UNCHANGED <<store, now, start, response, result, observations_extracted,
                   observations, filtered, trace, store0, request, feed, clientVars, auxVars>>

(* handlers.py:104: the send raises; nothing in the handler catches it     *)
(* without re-raising.                                                     *)
SendBatchFails ==
    /\ pc = "send"
    /\ batches # <<>>
    /\ sends' = Append(sends, [batch |-> Head(batches), accepted |-> FALSE,
                                 reported |-> 0])
    /\ result' = Raised("SinkError", "send")
    /\ lost' = lost \cup (Range(filtered) \ Delivered)
    /\ pc' = "idle"
    /\ UNCHANGED <<store, now, start, response, batches, observations_extracted,
                   observations, filtered, trace, store0, request, feed, clientVars, auxVars>>

(* handlers.py:110-121 *)
SaveCheckpoint ==
    /\ pc = "checkpoint"
    /\ store' = set_state(store, Integration, PullAction, NoSource,
                          CheckpointState(response, now), NoTTL)
    /\ result' = Returned(observations_extracted)
    /\ pc' = "idle"
    /\ UNCHANGED <<now, start, response, batches, observations_extracted, observations,
                   filtered, trace, sends, store0, lost, request, feed, clientVars, auxVars>>

InitClientIdle ==
    /\ cpc = "idle"
    /\ attempts = 0
    /\ http = [kind |-> "none"]
    /\ cresult = [kind |-> "none"]
    /\ tried = <<>>
    /\ inflight = 0
    /\ wait = 0

InitCycleIdle ==
    /\ store = [k \in Keys |-> Absent]
    /\ pc = "idle"
    /\ now = Aware(0)
    /\ start = Aware(0)
    /\ response = NoResponse
    /\ batches = <<>>
    /\ observations_extracted = 0
    /\ result = [kind |-> "none"]
    /\ observations = <<>>
    /\ filtered = <<>>
    /\ trace = <<>>
    /\ sends = <<>>
    /\ store0 = [k \in Keys |-> Absent]
    /\ lost = {}
    /\ request = [start |-> Aware(0)]

(* Nothing converted, no authentication tried yet.                         *)
InitConvIdle == conversion = [kind |-> "none"]
InitAuthIdle == auth = [kind |-> "none"]

(* No filter run started: the runs of the concurrent filter are idle.      *)
Procs == {1, 2}
Worlds == {1, 2}
InitFilterIdle ==
    /\ mode = [schedule |-> "none"]
    /\ worlds = [w \in Worlds |-> [k \in Keys |-> Absent]]
    /\ procs = [p \in Procs |-> [phase |-> "idle"]]
    /\ clock = 0
    /\ flog = <<>>

(* The filter has not been called.                                         *)
InitCallIdle == fcall = [kind |-> "none"]

InitAuxIdle == InitConvIdle /\ InitAuthIdle /\ InitFilterIdle /\ InitCallIdle

Init == InitCycleIdle /\ InitClientIdle /\ InitAuxIdle /\ feed = "statuses"

(* The same program fed with the DataSets of RecordDataSets.               *)
InitRecords == InitCycleIdle /\ InitClientIdle /\ InitAuxIdle /\ feed = "records"

Next ==
    \/ StartCycle
    \/ FetchRaises
    \/ FetchFalsy
    \/ FetchEnvelope
    \/ SendBatch
    \/ SendBatchFails
    \/ SaveCheckpoint

Spec == Init /\ [][Next]_vars

SpecRecords == InitRecords /\ [][Next]_vars

(***************************************************************************)
(* Cancellation and timeouts.  The cycle awaits the network at             *)
(* handlers.py:73 (the fetch) and handlers.py:104 (each batch send); a     *)
(* cancellation or a timeout is raised at the await.  Neither except       *)
(* clause of handlers.py:125-131 names it and there is no finally, so it   *)
(* leaves the handler as it is.                                            *)
(***************************************************************************)
CancelFetch ==
    /\ pc = "fetch"
    /\ response' = [kind |-> "cancelled"]
    /\ result' = Raised("CancelledError", "fetch")
    /\ pc' = "idle"
    /\ UNCHANGED <<store, now, start, batches, observations_extracted, observations,
                   filtered, trace, sends, store0, lost, request, feed, clientVars,
                   auxVars>>

(* Mutant: the device states written by the cycle are put back.            *)
CancelSend_RollsBack ==
    /\ pc = "send"
    /\ batches # <<>>
    /\ \E delivered \in BOOLEAN :
          /\ sends' = Append(sends, [batch |-> Head(batches), accepted |-> delivered,
                                     reported |-> 0])
          /\ lost' = lost \cup (Range(filtered) \
                        (Delivered \cup (IF delivered THEN Range(Head(batches)) ELSE {})))
    /\ store' = store0
    /\ result' = Raised("CancelledError", "send")
    /\ pc' = "idle"
    /\ UNCHANGED <<now, start, response, batches, observations_extracted,
                   observations, filtered, trace, store0, request, feed, clientVars,
                   auxVars>>

(* The send in flight is abandoned: the sink may or may not have taken the *)
(* batch, the cycle does not get its answer.                               *)
CancelSend ==
    /\ pc = "send"
    /\ batches # <<>>
    /\ \E delivered \in BOOLEAN :
          /\ sends' = Append(sends, [batch |-> Head(batches), accepted |-> delivered,
                                     reported |-> 0])
          /\ lost' = lost \cup (Range(filtered) \
                        (Delivered \cup (IF delivered THEN Range(Head(batches)) ELSE {})))
    /\ result' = Raised("CancelledError", "send")
    /\ pc' = "idle"
    /\ UNCHANGED <<store, now, start, response, batches, observations_extracted,
                   observations, filtered, trace, store0, request, feed, clientVars,
                   auxVars>>

NextCancel ==
    \/ StartCycle
    \/ FetchRaises
    \/ FetchFalsy
    \/ FetchEnvelope
    \/ SendBatch
    \/ SendBatchFails
    \/ SaveCheckpoint
    \/ CancelFetch
    \/ CancelSend

SpecCancel == Init /\ [][NextCancel]_vars

---------------------------------------------------------------------------
(* client.get_observations (client.py:97-161) and its retry decorator.     *)

GeneralErrorDefaultCode == -1
InvalidCredentialsCode == 1000
TooManyRequestsCode == 1101

Missing == [t |-> "missing"]

(* dict.get(key, default) on a field that may be missing                   *)
GetOr(field, default) == IF field = Missing THEN default ELSE field

(* The exceptions of client.py:21-42: code and message as constructed.     *)
GalooliGeneralErrorException(message, code) ==
    [kind |-> "raise", exc |-> "GalooliGeneralErrorException",
     message |-> message, code |-> code]
GalooliInvalidUserCredentialsException(message, code) ==
    [kind |-> "raise", exc |-> "GalooliInvalidUserCredentialsException",
     message |-> message, code |-> code]
GalooliTooManyRequestsException(message, code) ==
    [kind |-> "raise", exc |-> "GalooliTooManyRequestsException",
     message |-> message, code |-> code]
HTTPStatusError(status_code) ==
    [kind |-> "raise", exc |-> "HTTPStatusError", status_code |-> status_code]
OtherError(name) == [kind |-> "raise", exc |-> name]
Return(value) == [kind |-> "return", value |-> value]

(* f"General error occurred. Result code: {result_code}"                   *)
GeneralErrorMessage(result_code) ==
    [text |-> "General error occurred. Result code: ", result_code |-> result_code]

(* client.py:45-94: fifteen positional fields are read, then the validity  *)
(* gate and the status == 'Moving' gate.                                   *)
client_convert_to_er_observation(r, reports_timezone) ==
    IF r.arity < 15
    THEN [kind |-> "raise", exc |-> "IndexError"]
    ELSE IF /\ PyTruthy(r.latitude)
            /\ PyTruthy(r.longitude)
            /\ PyTruthy(r.time)
            /\ PyTruthy(r.sensor_id)
         THEN IF r.status = Str("Moving")
              THEN [kind |-> "obs",
                    obs |-> [manufacturer_id |-> r.sensor_id.v,
                             recorded_at |-> [wall |-> r.time.v,
                                              offset |-> reports_timezone],
                             location |-> [lat |-> r.latitude.v, lon |-> r.longitude.v],
                             additional |-> [status |-> r.status.v]]]
              ELSE [kind |-> "none"]
         ELSE [kind |-> "none"]

(* client.py:137-153 *)
ClientObservations(dataset, gmt_offset) ==
    LET reports_timezone == gmt_offset * 60
        conv == [i \in 1..Len(dataset) |->
                    client_convert_to_er_observation(CsvRow(dataset[i]), reports_timezone)]
        kept == SelectSeq(conv, LAMBDA c : c.kind = "obs")
    IN  IF \E i \in 1..Len(conv) : conv[i].kind = "raise"
        THEN OtherError("IndexError")
        ELSE Return([i \in 1..Len(kept) |-> kept[i].obs])

(* Mutant: the general error is built with the vendor's code and           *)
(* description.                                                            *)
RaiseForResultCode_CarriesCode(result_code, result_description) ==
    IF result_code = InvalidCredentialsCode
    THEN GalooliInvalidUserCredentialsException(result_description, InvalidCredentialsCode)
    ELSE IF result_code = TooManyRequestsCode
    THEN GalooliTooManyRequestsException(result_description, TooManyRequestsCode)
    ELSE GalooliGeneralErrorException(result_description, result_code)

(* client.py:119-135: a non-zero ResultCode *)
RaiseForResultCode(result_code, result_description) ==
    IF result_code = InvalidCredentialsCode
    THEN GalooliInvalidUserCredentialsException(result_description, InvalidCredentialsCode)
    ELSE IF result_code = TooManyRequestsCode
    THEN GalooliTooManyRequestsException(result_description, TooManyRequestsCode)
    ELSE GalooliGeneralErrorException(GeneralErrorMessage(result_code),
                                      GeneralErrorDefaultCode)

(* Mutant: the failures are built with their default codes.                *)
RaiseForStatus_DefaultCodes(status_code) ==
    IF status_code = 403
    THEN GalooliInvalidUserCredentialsException(Str("Unauthorized access"),
                                                InvalidCredentialsCode)
    ELSE IF status_code = 404
    THEN GalooliGeneralErrorException(Str("Not found"), GeneralErrorDefaultCode)
    ELSE HTTPStatusError(status_code)

(* client.py:156-161: an HTTP error status *)
RaiseForStatus(status_code) ==
    IF status_code = 403
    THEN GalooliInvalidUserCredentialsException(Str("Unauthorized access"), 403)
    ELSE IF status_code = 404
    THEN GalooliGeneralErrorException(Str("Not found"), 404)
    ELSE HTTPStatusError(status_code)

(* client.py:112-161: one pass through the body of get_observations for    *)
(* the vendor's answer h.                                                  *)
Attempt(h, gmt_offset) ==
    IF h.status_code >= 400 THEN RaiseForStatus(h.status_code)
    ELSE IF h.body.kind = "no_content" THEN OtherError("JSONDecodeError")
    ELSE IF h.body.kind # "envelope" THEN Return(Str(h.body.text))
    ELSE LET common == h.body.CommonResult
             result_description ==
                 GetOr(common.ResultDescription, GetOr(common.RejectReason, None))
         IN  IF common.ResultCode # 0
             THEN RaiseForResultCode(common.ResultCode, result_description)
             ELSE ClientObservations(common.DataSet, gmt_offset)

(* Mutant: the retry decorator is absent, no failure is retried.           *)
Retryable_Never(outcome) == FALSE

(* Mutant: every failure of the vendor's taxonomy is retried.              *)
Retryable_AnyFailure(outcome) == outcome.kind = "raise"

(* stamina.retry(on=GalooliTooManyRequestsException, ...): client.py:97    *)
Retryable(outcome) ==
    outcome.kind = "raise" /\ outcome.exc = "GalooliTooManyRequestsException"

(* The wait parameters of the decorator (client.py:97); the jitter is      *)
(* drawn in whole units.                                                   *)
WaitInitial == 4
WaitJitter == 5
WaitMax == 32
Jitters == 0..WaitJitter

Min(a, b) == IF a < b THEN a ELSE b

(* Mutant: the wait is not capped.                                         *)
Backoff_Uncapped(num, jitter) == WaitInitial * 2 ^ (num - 1) + jitter

(* The sleep after failed attempt num: exponential in num from             *)
(* wait_initial, plus the jitter, capped at wait_max.                      *)
Backoff(num, jitter) == Min(WaitMax, WaitInitial * 2 ^ (num - 1) + jitter)

(* What the log of attempts keeps of an outcome.                           *)
Tried(outcome) ==
    IF outcome.kind = "raise"
    THEN [exc |-> outcome.exc,
          code |-> IF "code" \in DOMAIN outcome THEN outcome.code
                   ELSE IF "status_code" \in DOMAIN outcome THEN outcome.status_code
                   ELSE 0]
    ELSE [exc |-> "none", code |-> 0]

(* The vendor's answers *)
ResultCodes == {1000, 1101, 999, 2000}
Descriptions ==
    {[ResultDescription |-> Str("d1"), RejectReason |-> Missing],
     [ResultDescription |-> Missing, RejectReason |-> Str("r1")],
     [ResultDescription |-> Missing, RejectReason |-> Missing]}
ClientDataSets ==
    {<<>>,
     <<Row(15, Str("s1"), Str("10:00"), Str("Moving"), Num(40), Num(-74))>>,
     <<Row(15, Str("s1"), Str("10:00"), Str("off"), Num(40), Num(-74))>>,
     <<Row(9, Str("s1"), Str("10:00"), Str("Moving"), Num(40), Num(-74))>>}
ErrorEnvelopes ==
    {[kind |-> "envelope",
      CommonResult |-> [ResultCode |-> c, ResultDescription |-> d.ResultDescription,
                        RejectReason |-> d.RejectReason, DataSet |-> <<>>],
      MaxGmtUpdateTime |-> Missing] : c \in ResultCodes, d \in Descriptions}
SuccessEnvelopes ==
    {[kind |-> "envelope",
      CommonResult |-> [ResultCode |-> 0, ResultDescription |-> Missing,
                        RejectReason |-> Missing, DataSet |-> d],
      MaxGmtUpdateTime |-> VendorStamp(t)] : d \in ClientDataSets, t \in VendorTimes}
FalsyBodies == {[kind |-> "falsy", text |-> "null"], [kind |-> "falsy", text |-> "{}"],
                [kind |-> "no_content", text |-> ""]}
HttpAnswers ==
    {[status_code |-> 200, body |-> b] :
        b \in ErrorEnvelopes \cup SuccessEnvelopes \cup FalsyBodies}
    \cup {[status_code |-> c, body |-> [kind |-> "no_content", text |-> ""]] :
            c \in {403, 404, 429, 500}}

ClientCall ==
    /\ cpc \in {"idle", "done"}
    /\ cpc' = "request"
    /\ attempts' = 0
    /\ http' = [kind |-> "none"]
    /\ cresult' = [kind |-> "none"]
    /\ tried' = <<>>
    /\ wait' = 0
    /\ UNCHANGED <<inflight, cycleVars, auxVars>>

(* client.py:113: the request is issued and awaited.                       *)
ClientSend ==
    /\ cpc = "request"
    /\ attempts < MaxAttempts
    /\ cpc' = "await"
    /\ attempts' = attempts + 1
    /\ inflight' = inflight + 1
    /\ UNCHANGED <<http, cresult, tried, wait, cycleVars, auxVars>>

(* client.py:113-161: the answer arrives and the body of get_observations  *)
(* runs on it; the decorator retries or lets the outcome through.          *)
ClientAttempt ==
    /\ cpc = "await"
    /\ inflight' = inflight - 1
    /\ \E h \in HttpAnswers, g \in GmtOffsets :
          /\ http' = h
          /\ tried' = Append(tried, Tried(Attempt(h, g)))
          /\ IF Retryable(Attempt(h, g)) /\ attempts < MaxAttempts
             THEN cpc' = "backoff" /\ cresult' = cresult
             ELSE cpc' = "done" /\ cresult' = Attempt(h, g)
    /\ UNCHANGED <<attempts, wait, cycleVars, auxVars>>

(* The decorator sleeps, then calls get_observations again.                *)
ClientBackoff ==
    /\ cpc = "backoff"
    /\ \E j \in Jitters : wait' = Backoff(attempts, j)
    /\ cpc' = "request"
    /\ UNCHANGED <<attempts, http, cresult, tried, inflight, cycleVars, auxVars>>

NextClient ==
    \/ ClientCall
    \/ ClientSend
    \/ ClientAttempt
    \/ ClientBackoff

SpecClient == Init /\ [][NextClient]_vars

(***************************************************************************)
(* The conversion as a pure function of one record and the configured      *)
(* offset (handlers.py:90-95, utils.py:10-44).                             *)
(***************************************************************************)

(* gmt_offset as the configuration allows it.                              *)
ConfiguredOffsets == -12 .. 12

(* The records handed to the conversion.                                   *)
ConvertRows == ValidRows \cup FalsyRows \cup {ShortRow}

Abs(n) == IF n < 0 THEN -n ELSE n

(* The "+HH:MM" that isoformat() writes for an offset given in minutes.    *)
IsoOffset(minutes) ==
    [sign |-> IF minutes < 0 THEN "-" ELSE "+",
     hh |-> Abs(minutes) \div 60,
     mm |-> Abs(minutes) % 60]

(* dateparser.parse on the vendor's gps_time text: a naive wall clock.     *)
dateparser_parse(text) ==
    IF text = "10:00" THEN [hour |-> 10, minute |-> 0, second |-> 0] ELSE None

(* recorded_at as isoformat() writes it: the wall clock, then the offset.  *)
IsoFormat(recorded_at) ==
    [wall |-> dateparser_parse(recorded_at.wall),
     offset |-> IsoOffset(recorded_at.offset)]

(* One record is converted under one configured offset.                    *)
ConvertRecord ==
    /\ \E r \in ConvertRows, g \in ConfiguredOffsets :
          conversion' = [kind |-> "done", record |-> r, gmt_offset |-> g,
                         out |-> ConvertDataset(<<r>>, g)]
    /\ UNCHANGED <<cycleVars, clientVars, auth, filterVars, fcall>>

NextConvert == ConvertRecord
SpecConvert == Init /\ [][NextConvert]_vars

(***************************************************************************)
(* action_auth (handlers.py:26-46): one fetch, then the answer.            *)
(***************************************************************************)
AuthFailures == {"GalooliInvalidUserCredentialsException",
                 "GalooliGeneralErrorException",
                 "GalooliTooManyRequestsException"}

(* The pull handler's treatment of a failed fetch, put in action_auth.     *)
action_auth_Reraises(outcome) ==
    IF outcome.kind = "return"
    THEN Return([valid_credentials |-> TRUE])
    ELSE outcome

action_auth(outcome) ==
    IF outcome.kind = "return"
    THEN Return([valid_credentials |-> TRUE])
    ELSE IF outcome.exc \in AuthFailures
    THEN Return([valid_credentials |-> FALSE, message |-> outcome.message,
                 code |-> outcome.code])
    ELSE IF outcome.exc = "HTTPStatusError"
    THEN Return([error |-> TRUE, status_code |-> outcome.status_code])
    ELSE outcome

(* Mutant: a successful credential check saves a checkpoint, as the pull   *)
(* handler does after its fetch.                                           *)
AuthReturn_SavesCheckpoint ==
    /\ cpc = "done"
    /\ cpc' = "idle"
    /\ auth' = [kind |-> "done", outcome |-> cresult, result |-> action_auth(cresult)]
    /\ store' = IF cresult.kind = "return"
                THEN set_state(store, Integration, PullAction, NoSource,
                               [last_updated_time |-> VendorStamp(now.t)], NoTTL)
                ELSE store
    /\ UNCHANGED <<attempts, http, cresult, tried, inflight, wait, pc, now, start,
                   response, batches, observations_extracted, result, observations,
                   filtered, trace, sends, store0, lost, request, feed,
                   conversion, filterVars, fcall>>

(* The fetch awaited by action_auth has ended: the handler answers.        *)
AuthReturn ==
    /\ cpc = "done"
    /\ cpc' = "idle"
    /\ auth' = [kind |-> "done", outcome |-> cresult, result |-> action_auth(cresult)]
    /\ UNCHANGED <<attempts, http, cresult, tried, inflight, wait, cycleVars,
                   conversion, filterVars, fcall>>

NextAuth ==
    \/ ClientCall
    \/ ClientSend
    \/ ClientAttempt
    \/ ClientBackoff
    \/ AuthReturn
SpecAuth == Init /\ [][NextAuth]_vars

(* action_auth called on an integration whose earlier poll cycles have     *)
(* left a checkpoint and device states in the store.                       *)
AuthStores ==
    {[k \in Keys |->
        IF k = CheckpointKey /\ c
        THEN [value |-> [last_updated_time |-> VendorStamp(9)], ttl |-> NoTTL]
        ELSE IF k = <<Integration, PullAction, "s1">> /\ d
        THEN [value |-> [status |-> "Moving"], ttl |-> NoTTL]
        ELSE Absent] : c \in BOOLEAN, d \in BOOLEAN}

InitAuthPersisted ==
    /\ InitClientIdle /\ InitAuxIdle
    /\ feed = "statuses"
    /\ store \in AuthStores
    /\ store0 = store
    /\ pc = "idle"
    /\ now = Aware(0)
    /\ start = Aware(0)
    /\ response = NoResponse
    /\ batches = <<>>
    /\ observations_extracted = 0
    /\ result = [kind |-> "none"]
    /\ observations = <<>>
    /\ filtered = <<>>
    /\ trace = <<>>
    /\ sends = <<>>
    /\ lost = {}
    /\ request = [start |-> Aware(0)]

SpecAuthPersisted == InitAuthPersisted /\ [][NextAuth]_vars

(***************************************************************************)
(* Two poll cycles at once.  Each cycle awaits the state manager at        *)
(* handlers.py:58 (checkpoint read), utils.py:71 (get_state), utils.py:52  *)
(* (set_state) and handlers.py:114 (checkpoint write); another cycle can   *)
(* run between any two of these.                                           *)
(***************************************************************************)
MaxClock == 1

Schedules == {"serialized", "interleaved", "replay"}

(* What the vendor reports about one sensor.                               *)
FilterRows == {r \in ValidRows : r.sensor_id = Str("s1")}
FilterDataSets == SeqsUpTo(FilterRows, MaxLen) \ {<<>>}

(* The sensor's device state persisted before the cycles start.            *)
StoredBefore == {EmptyDict, [status |-> "Moving"]}
StoreWith(before) ==
    [k \in Keys |-> IF k[3] = "s1" /\ before # EmptyDict
                    THEN [value |-> before, ttl |-> NoTTL]
                    ELSE Absent]

FilterResponse(dataset) ==
    [kind |-> "envelope", DataSet |-> dataset, MaxGmtUpdateTime |-> VendorStamp(12)]

(* A cycle of integration_id about to start on the store world.            *)
NewRun(integration_id, dataset, world) ==
    [phase |-> "start", integration_id |-> integration_id, world |-> world,
     response |-> FilterResponse(dataset), observations |-> <<>>, pos |-> 1,
     device_state |-> EmptyDict, filtered |-> <<>>, decisions |-> <<>>,
     touched |-> {}]

(* Under "replay" the two runs are the same call made twice, each on its   *)
(* own copy of the same persisted state; otherwise they share one store.   *)
InitFilter ==
    /\ InitCycleIdle /\ InitClientIdle /\ InitConvIdle /\ InitAuthIdle
    /\ InitCallIdle
    /\ feed = "statuses"
    /\ clock = 0
    /\ flog = <<>>
    /\ \E sch \in Schedules, other \in Integrations, before \in StoredBefore,
          d1 \in FilterDataSets, d2 \in FilterDataSets :
          /\ sch = "replay" => (other = "i1" /\ d2 = d1)
          /\ mode = [schedule |-> sch, before |-> before]
          /\ worlds = [w \in Worlds |-> StoreWith(before)]
          /\ procs = [p \in Procs |->
                         NewRun(IF p = 1 THEN "i1" ELSE other,
                                IF p = 1 THEN d1 ELSE d2,
                                IF sch = "replay" THEN p ELSE 1)]

(* The loop moves to the next observation, or the filter returns.          *)
Advance(me) ==
    [me EXCEPT !.pos = @ + 1,
               !.phase = IF me.pos = Len(me.observations) THEN "checkpoint" ELSE "read"]

(* Another cycle of the same integration is between its read and its write *)
(* of the sensor this cycle is about to evaluate.                          *)
Busy(p) ==
    \E q \in Procs \ {p} :
        /\ procs[q].phase = "write"
        /\ procs[q].world = procs[p].world
        /\ procs[q].integration_id = procs[p].integration_id
        /\ procs[q].observations[procs[q].pos].source =
              procs[p].observations[procs[p].pos].source

(* handlers.py:58-95: the checkpoint is read, the data fetched, converted. *)
CycleStart(p) ==
    /\ procs[p].phase = "start"
    /\ \E g \in GmtOffsets :
          LET me == procs[p]
              key == <<me.integration_id, PullAction, NoSource>>
              converted == ConvertDataset(me.response.DataSet, g)
          IN  procs' = [procs EXCEPT ![p] =
                          [me EXCEPT !.touched = @ \cup {key},
                                     !.observations = converted.observations,
                                     !.phase = "read"]]
    /\ UNCHANGED <<mode, worlds, clock, flog, cycleVars, clientVars, conversion, auth, fcall>>

(* utils.py:65-80: get_state is awaited; an unchanged status is ignored    *)
(* at once, any other outcome goes on to the awaited set_state.            *)
FilterRead(p) ==
    /\ procs[p].phase = "read"
    /\ mode.schedule = "serialized" => ~Busy(p)
    /\ LET me == procs[p]
           obs == me.observations[me.pos]
           st == worlds[me.world]
           key == <<me.integration_id, PullAction, obs.source>>
           device_state == get_state(st, me.integration_id, PullAction, obs.source)
           acc == [store |-> st, filtered |-> me.filtered, writes |-> <<>>,
                   trace |-> <<>>]
           nxt == FilterDecide(device_state, acc, me.integration_id, obs)
       IN  procs' = [procs EXCEPT ![p] =
                IF nxt = acc
                THEN Advance([me EXCEPT !.touched = @ \cup {key},
                                        !.decisions = Append(@, FALSE)])
                ELSE [me EXCEPT !.touched = @ \cup {key},
                                !.device_state = device_state,
                                !.phase = "write"]]
    /\ UNCHANGED <<mode, worlds, clock, flog, cycleVars, clientVars, conversion, auth, fcall>>

(* utils.py:50-58: set_state completes on the store as it is now, and the  *)
(* observation is appended.                                                *)
FilterWrite(p) ==
    /\ procs[p].phase = "write"
    /\ LET me == procs[p]
           obs == me.observations[me.pos]
           st == worlds[me.world]
           acc == [store |-> st, filtered |-> me.filtered, writes |-> <<>>,
                   trace |-> <<>>]
           nxt == FilterDecide(me.device_state, acc, me.integration_id, obs)
           written == {k \in Keys : nxt.store[k] # st[k]}
       IN  /\ worlds' = [worlds EXCEPT ![me.world] = nxt.store]
           /\ procs' = [procs EXCEPT ![p] =
                    Advance([me EXCEPT !.filtered = nxt.filtered,
                                       !.touched = @ \cup written,
                                       !.decisions = Append(@, TRUE)])]
           /\ flog' = Append(flog,
                    [proc |-> p, world |-> me.world,
                     integration_id |-> me.integration_id,
                     source |-> obs.source, status |-> obs.additional.status,
                     read |-> me.device_state,
                     before |-> get_state(st, me.integration_id, PullAction, obs.source),
                     written |-> written])
    /\ UNCHANGED <<mode, clock, cycleVars, clientVars, conversion, auth, fcall>>

(* handlers.py:111-118: the checkpoint is saved and the cycle returns.     *)
CycleEnd(p) ==
    /\ procs[p].phase = "checkpoint"
    /\ LET me == procs[p]
           st == worlds[me.world]
           saved == set_state(st, me.integration_id, PullAction, NoSource,
                              CheckpointState(me.response, Aware(clock)), NoTTL)
       IN  /\ worlds' = [worlds EXCEPT ![me.world] = saved]
           /\ procs' = [procs EXCEPT ![p] =
                    [me EXCEPT !.touched = @ \cup {k \in Keys : saved[k] # st[k]},
                               !.phase = "done"]]
    /\ UNCHANGED <<mode, clock, flog, cycleVars, clientVars, conversion, auth, fcall>>

(* Time passes.                                                            *)
FilterTick ==
    /\ clock < MaxClock
    /\ clock' = clock + 1
    /\ UNCHANGED <<mode, worlds, procs, flog, cycleVars, clientVars, conversion, auth, fcall>>

NextFilter ==
    \/ \E p \in Procs : CycleStart(p)
    \/ \E p \in Procs : FilterRead(p)
    \/ \E p \in Procs : FilterWrite(p)
    \/ \E p \in Procs : CycleEnd(p)
    \/ FilterTick
SpecFilter == InitFilter /\ [][NextFilter]_vars

(***************************************************************************)
(* filter_observations_by_device_status (utils.py:46-87) as a function of  *)
(* the persisted device state and the observations it is given.            *)
(***************************************************************************)
CallLen == 3

(* The observations of a DataSet of valid records of any sensor.           *)
CallInputs == {ConvertDataset(d, g).observations :
                  d \in SeqsUpTo(ValidRows, CallLen), g \in GmtOffsets}

(* Device state persisted by earlier cycles: a status per sensor, or none. *)
PersistedStores ==
    {[k \in Keys |-> IF k[1] = Integration /\ k[3] \in DOMAIN b /\ b[k[3]] # "none"
                     THEN [value |-> [status |-> b[k[3]]], ttl |-> NoTTL]
                     ELSE Absent] :
        b \in [Sensors -> Statuses \cup {"none"}]}

(* The filter is called on a persisted state with a list of observations.  *)
InitFilterCall ==
    /\ InitCycleIdle /\ InitClientIdle /\ InitConvIdle /\ InitAuthIdle
    /\ InitFilterIdle
    /\ feed = "statuses"
    /\ \E st \in PersistedStores, obsSeq \in CallInputs :
          fcall = [kind |-> "called", st |-> st, observations |-> obsSeq]

(* The call runs to its return.                                            *)
FilterCall ==
    /\ fcall.kind = "called"
    /\ fcall' = [kind |-> "done", st |-> fcall.st, observations |-> fcall.observations,
                 out |-> filter_observations_by_device_status(
                             fcall.st, Integration, fcall.observations)]
    /\ UNCHANGED <<cycleVars, clientVars, conversion, auth, filterVars>>

NextFilterCall == FilterCall
SpecFilterCall == InitFilterCall /\ [][NextFilterCall]_vars

---------------------------------------------------------------------------
(* Properties of the poll cycle and the filter (Spec).                     *)

DeviceKey(sensor_id) == <<Integration, PullAction, sensor_id>>
StatusOf(obs) == obs.additional.status
StoredState(status) == [value |-> [status |-> status], ttl |-> NoTTL]
QuietStatuses == {"off", "Off", "OFF"}
CycleRaised == pc = "idle" /\ result.kind = "raised"
CycleReturned == pc = "idle" /\ result.kind = "returned"

(* C1: an observation whose sensor has no stored device state is forwarded *)
(* (appended, once, to the returned list) and the stored state of the      *)
(* sensor becomes {status: incoming status}, with no TTL.                  *)
C1_FirstSeenForwarded ==
    \A i \in 1..Len(trace) :
        ~Truthy(trace[i].before.value) =>
            /\ trace[i].forwarded
            /\ trace[i].appended = <<trace[i].obs>>
            /\ trace[i].after = StoredState(StatusOf(trace[i].obs))
            /\ trace[i].writes =
                  <<<<trace[i].obs.source, [status |-> StatusOf(trace[i].obs)], NoTTL>>>>

C1_Witness ==
    /\ pc = "send"
    /\ \E i \in 1..Len(trace) :
          /\ trace[i].before = Absent
          /\ trace[i].obs \in Range(filtered)
          /\ store[DeviceKey(trace[i].obs.source)] = StoredState(StatusOf(trace[i].obs))

(* C2: an observation whose sensor has a stored status different from the  *)
(* incoming one is forwarded and the stored status is overwritten with the *)
(* incoming status.                                                        *)
C2_ChangeForwarded ==
    \A i \in 1..Len(trace) :
        (/\ Truthy(trace[i].before.value)
         /\ DictGet(trace[i].before.value, "status") # StatusOf(trace[i].obs)) =>
            /\ trace[i].forwarded
            /\ trace[i].appended = <<trace[i].obs>>
            /\ trace[i].after = StoredState(StatusOf(trace[i].obs))

C2_Witness ==
    /\ pc = "send"
    /\ \E i \in 1..Len(trace) :
          /\ trace[i].before = StoredState("Moving")
          /\ StatusOf(trace[i].obs) = "off"
          /\ trace[i].forwarded
          /\ trace[i].after = StoredState("off")

(* Two observations fed in sequence for one sensor: Prev(j, j - 1) is the  *)
(* observation of the sensor of j fed last before j in the same call (0 if *)
(* there is none).                                                         *)
RECURSIVE Prev(_, _)
Prev(j, k) ==
    IF k = 0 THEN 0
    ELSE IF trace[k].obs.source = trace[j].obs.source THEN k
    ELSE Prev(j, k - 1)

SamePair(i, j) ==
    /\ i # 0
    /\ i = Prev(j, j - 1)
    /\ StatusOf(trace[i].obs) = StatusOf(trace[j].obs)
    /\ StatusOf(trace[i].obs) \notin QuietStatuses

Changed(entry) ==
    \/ ~Truthy(entry.before.value)
    \/ DictGet(entry.before.value, "status") # StatusOf(entry.obs)

(* C3 as stated: of two observations with the same (sensorId, status), of  *)
(* a non-quiet status, fed in sequence, the first is forwarded and the     *)
(* second is suppressed without any device-state write.                    *)
C3_FirstForwardedSecondSuppressed ==
    \A j \in 1..Len(trace) :
        LET i == Prev(j, j - 1)
        IN  SamePair(i, j) =>
                /\ trace[i].forwarded
                /\ ~trace[j].forwarded
                /\ trace[j].writes = <<>>

(* C3 amended: the second is suppressed without any device-state write,    *)
(* and so is every observation whose status equals the stored status of    *)
(* its sensor (the same pair fed in an earlier cycle); the first is        *)
(* forwarded exactly when the stored status before it was absent or        *)
(* different.                                                              *)
C3_SecondSuppressed ==
    \A j \in 1..Len(trace) :
        LET i == Prev(j, j - 1)
        IN  /\ SamePair(i, j) =>
                  /\ ~trace[j].forwarded
                  /\ trace[j].writes = <<>>
                  /\ trace[j].after = trace[j].before
                  /\ trace[i].forwarded <=> Changed(trace[i])
            /\ (/\ trace[j].before = StoredState(StatusOf(trace[j].obs))
                /\ StatusOf(trace[j].obs) \notin QuietStatuses) =>
                  /\ ~trace[j].forwarded
                  /\ trace[j].writes = <<>>
                  /\ trace[j].after = trace[j].before

C3_Witness ==
    /\ pc = "send"
    /\ Len(trace) = 2
    /\ SamePair(1, 2)
    /\ trace[1].forwarded
    /\ ~trace[2].forwarded
    /\ filtered = <<trace[1].obs>>

C5_FetchFailureReraised ==
    (pc = "idle" /\ response.kind = "raise") =>
        /\ result = Raised(response.exc, "fetch")
        /\ response.exc \in ClientExceptions
        /\ store = store0
        /\ sends = <<>>
        /\ trace = <<>>

C5_Witness ==
    /\ pc = "idle"
    /\ result = Raised("GalooliTooManyRequestsException", "fetch")
    /\ Truthy(store[CheckpointKey].value)
    /\ Truthy(store[DeviceKey("s1")].value)

(* C6: a batch send that fails ends the cycle: it is the last sink call of *)
(* the cycle, the failure is surfaced and the checkpoint keeps its value.  *)
C6_SendFailureAborts ==
    \A i \in 1..Len(sends) :
        ~sends[i].accepted =>
            /\ i = Len(sends)
            /\ CycleRaised
            /\ result = Raised("SinkError", "send")
            /\ store[CheckpointKey] = store0[CheckpointKey]
            /\ batches # <<>>
            /\ SentBatches \o batches = generate_batches(filtered, BatchSize)

C6_Witness ==
    /\ CycleRaised
    /\ Len(sends) = 1
    /\ ~sends[1].accepted
    /\ Len(batches) = 2

(* C7: an observation forwarded by the filter of a failed cycle and not    *)
(* accepted by the sink is delivered by a later successful cycle that      *)
(* fetches it again.                                                       *)
C7_AtLeastOnce ==
    CycleReturned => Range(observations) \cap lost = {}

(* C8: every device-state write of a cycle belongs to exactly one          *)
(* forwarded observation of that sensor, and a failed cycle leaves no      *)
(* observation whose state was written and whose forward was not carried   *)
(* out.                                                                    *)
C8_WriteOnlyWithForward ==
    /\ \A i \in 1..Len(trace) :
          /\ Len(trace[i].writes) = Len(trace[i].appended)
          /\ trace[i].writes # <<>> =>
                /\ trace[i].appended = <<trace[i].obs>>
                /\ trace[i].writes[1][1] = trace[i].obs.source
    /\ CycleRaised =>
          \A i \in 1..Len(trace) : trace[i].writes # <<>> => trace[i].obs \in Delivered

---------------------------------------------------------------------------
(* Properties of client.get_observations (SpecClient).                     *)

EnvelopeAnswered ==
    /\ cpc = "done"
    /\ http.status_code = 200
    /\ http.body.kind = "envelope"

(* C9: with a successful transport status the envelope is classified by    *)
(* ResultCode: 0 returns the data set and MaxGmtUpdateTime, 1000 raises    *)
(* the invalid-credentials failure with code 1000, 1101 the                *)
(* too-many-requests failure with code 1101, any other code the            *)
(* general-error failure.                                                  *)
C9_ResultCodeMapping ==
    EnvelopeAnswered =>
        LET common == http.body.CommonResult
        IN  CASE common.ResultCode = 0 ->
                    cresult = Return([DataSet |-> common.DataSet,
                                      MaxGmtUpdateTime |-> http.body.MaxGmtUpdateTime])
              [] common.ResultCode = 1000 ->
                    /\ cresult.kind = "raise"
                    /\ cresult.exc = "GalooliInvalidUserCredentialsException"
                    /\ cresult.code = 1000
              [] common.ResultCode = 1101 ->
                    /\ cresult.kind = "raise"
                    /\ cresult.exc = "GalooliTooManyRequestsException"
                    /\ cresult.code = 1101
              [] OTHER ->
                    /\ cresult.kind = "raise"
                    /\ cresult.exc = "GalooliGeneralErrorException"

GeneralErrorAnswered ==
    /\ EnvelopeAnswered
    /\ http.body.CommonResult.ResultCode \notin {0, 1000, 1101}

HttpErrorAnswered ==
    /\ cpc = "done"
    /\ http.status_code >= 400

(* C11: an HTTP error status 403 surfaces as the invalid-credentials       *)
(* failure with code 403, 404 as the general-error failure with code 404,  *)
(* every other error status as the raw HTTP status error of that status.   *)
C11_HttpStatusMapping ==
    HttpErrorAnswered =>
        CASE http.status_code = 403 ->
                /\ cresult.kind = "raise"
                /\ cresult.exc = "GalooliInvalidUserCredentialsException"
                /\ cresult.code = 403
          [] http.status_code = 404 ->
                /\ cresult.kind = "raise"
                /\ cresult.exc = "GalooliGeneralErrorException"
                /\ cresult.code = 404
          [] OTHER ->
                cresult = [kind |-> "raise", exc |-> "HTTPStatusError",
                           status_code |-> http.status_code]

C11_Witness ==
    /\ HttpErrorAnswered
    /\ http.status_code = 403
    /\ cresult.exc = "GalooliInvalidUserCredentialsException"
    /\ cresult.code = 403

RateLimited == [exc |-> "GalooliTooManyRequestsException", code |-> 1101]

NonRetryableSurfaced ==
    /\ cpc = "done"
    /\ cresult.kind = "raise"
    /\ cresult.exc \in {"GalooliInvalidUserCredentialsException",
                        "GalooliGeneralErrorException", "HTTPStatusError"}

(* C12 as stated: when an attempt ends in the invalid-credentials failure, *)
(* the general-error failure or a raw HTTP status error, exactly one       *)
(* request has been issued in the call and no further attempt is made.     *)
C12_ExactlyOneRequest ==
    NonRetryableSurfaced =>
        /\ attempts = 1
        /\ inflight = 0

(* C12 amended: an attempt that ends in anything but the too-many-requests *)
(* failure is the last attempt of the call, and the failure it raised is   *)
(* what the call surfaces; every attempt before it ended in the            *)
(* too-many-requests failure, so the call has issued exactly one request   *)
(* when its first attempt was not rate limited.                            *)
C12_OnlyRateLimitedRetried ==
    /\ \A i \in 1..Len(tried) :
          tried[i] # RateLimited => (i = Len(tried) /\ cpc = "done")
    /\ NonRetryableSurfaced =>
          /\ inflight = 0
          /\ Len(tried) = attempts
          /\ tried[attempts].exc = cresult.exc
          /\ \A i \in 1..(attempts - 1) : tried[i] = RateLimited

C12_Witness ==
    /\ NonRetryableSurfaced
    /\ attempts = 2
    /\ tried[1] = RateLimited
    /\ cresult.exc = "GalooliInvalidUserCredentialsException"
    /\ cresult.code = 1000

AllRateLimited == \A i \in 1..Len(tried) : tried[i] = RateLimited

RECURSIVE Doubled(_)
Doubled(k) == IF k <= 1 THEN 4 ELSE 2 * Doubled(k - 1)

(* C14: the wait before attempt k+1 is at least the exponential backoff    *)
(* 4, 8, 16, ... (or the cap), exceeds it by at most 5 units of jitter and *)
(* is never greater than 32; before the first retry it lies in 4..9.       *)
C14_BackoffBounds ==
    (cpc = "request" /\ attempts >= 1) =>
        /\ wait <= 32
        /\ wait >= (IF Doubled(attempts) < 32 THEN Doubled(attempts) ELSE 32)
        /\ wait <= Doubled(attempts) + 5
        /\ attempts = 1 => wait \in 4..9

C14_Witness ==
    /\ cpc = "request"
    /\ attempts = 4
    /\ wait = 32
    /\ AllRateLimited

EmptyBodyAnswered ==
    /\ cpc = "done"
    /\ http.status_code = 200
    /\ http.body.kind \in {"falsy", "no_content"}

(* C15: when the vendor's response body is empty or absent,                *)
(* get_observations returns a falsy result and does not raise.             *)
C15_EmptyBodyFalsyResult ==
    EmptyBodyAnswered =>
        /\ cresult.kind = "return"
        /\ ~PyTruthy(cresult.value)

---------------------------------------------------------------------------
(* Properties of the poll cycle, continued.                                *)

QuietPair(i, j) ==
    /\ i # 0
    /\ i = Prev(j, j - 1)
    /\ StatusOf(trace[i].obs) = StatusOf(trace[j].obs)
    /\ StatusOf(trace[i].obs) \in QuietStatuses

(* C16: of two "off" observations fed in sequence for one sensor, both are *)
(* forwarded when their recorded_at differ, and only the first when their  *)
(* recorded_at are equal.                                                  *)
C16_QuietReforward ==
    \A j \in 1..Len(trace) :
        LET i == Prev(j, j - 1)
        IN  QuietPair(i, j) =>
                IF trace[i].obs.recorded_at # trace[j].obs.recorded_at
                THEN trace[i].forwarded /\ trace[j].forwarded
                ELSE trace[i].forwarded /\ ~trace[j].forwarded

AllBatches == [i \in 1..Len(Accepted) |-> Accepted[i].batch] \o batches

(* C18: the forwarded observations go to the sink in batches of at most    *)
(* 200, in input order, each observation in exactly one batch; a cycle     *)
(* that returns has made ceil(n/200) sink calls for n forwarded            *)
(* observations, 200 then 50 for 250.                                      *)
C18_BatchesOfAtMost200 ==
    /\ \A i \in 1..Len(sends) : Len(sends[i].batch) \in 1..200
    /\ \A i \in 1..Len(batches) : Len(batches[i]) \in 1..200
    /\ Flatten(AllBatches) = filtered
    /\ (CycleReturned /\ response.kind = "envelope") =>
          /\ Len(sends) = (Len(filtered) + 199) \div 200
          /\ Len(filtered) = 250 =>
                <<Len(sends[1].batch), Len(sends[2].batch)>> = <<200, 50>>

C18_Witness ==
    /\ CycleReturned
    /\ Len(filtered) = 250
    /\ Len(sends) = 2
    /\ Len(sends[1].batch) = 200
    /\ Len(sends[2].batch) = 50

RECURSIVE SumReported(_)
SumReported(ss) == IF ss = <<>> THEN 0 ELSE Head(ss).reported + SumReported(Tail(ss))

(* C19: the observations_extracted a cycle returns is the sum of the       *)
(* numbers of items the sink reported for the batches sent in the cycle,   *)
(* and 0 when no batch was sent.                                           *)
C19_ExtractedIsSumOfReports ==
    /\ observations_extracted = SumReported(sends)
    /\ CycleReturned =>
          /\ result.observations_extracted = SumReported(sends)
          /\ sends = <<>> => result.observations_extracted = 0

C19_Witness ==
    /\ CycleReturned
    /\ Len(sends) = 2
    /\ sends[1].reported = 199
    /\ sends[2].reported = 49
    /\ result.observations_extracted = 248

RawFalsy(r) ==
    \/ ~PyTruthy(r.sensor_id)
    \/ ~PyTruthy(r.latitude)
    \/ ~PyTruthy(r.longitude)
    \/ ~PyTruthy(r.time)

Converted ==
    /\ response.kind = "envelope"
    /\ ~(result.kind = "raised" /\ result.at = "convert")

(* C20: for a record of correct arity with a falsy sensor id, latitude,    *)
(* longitude or time (null, empty text or zero), convert_to_er_observation *)
(* returns None, and the record contributes no observation to the cycle.   *)
C20_FalsyFieldsDropped ==
    Converted =>
        LET dataset == response.DataSet
        IN  /\ \A i \in 1..Len(dataset) :
                  (dataset[i].arity = 9 /\ RawFalsy(dataset[i])) =>
                      convert_to_er_observation(dataset[i], -300).kind = "none"
            /\ Len(observations) =
                  Cardinality({i \in 1..Len(dataset) : ~RawFalsy(dataset[i])})

BadArity ==
    /\ response.kind = "envelope"
    /\ \E i \in 1..Len(response.DataSet) : response.DataSet[i].arity # 9

(* C21: a record whose arity is not the nine fields of the schema makes    *)
(* the conversion raise ValueError; the cycle ends with that error, with   *)
(* no observation converted, no device state written, no batch sent and    *)
(* the checkpoint as the cycle found it.                                   *)
C21_ArityMismatchAborts ==
    /\ BadArity =>
          /\ pc = "idle"
          /\ result = Raised("ValueError", "convert")
          /\ observations = <<>>
          /\ trace = <<>>
          /\ sends = <<>>
          /\ store = store0
    /\ (result.kind = "raised" /\ result.at = "convert") => BadArity

C21_Witness ==
    /\ BadArity
    /\ Len(response.DataSet) = 2
    /\ response.DataSet[1] \in ValidRows
    /\ result = Raised("ValueError", "convert")
    /\ Truthy(store0[CheckpointKey].value)
    /\ store[CheckpointKey] = store0[CheckpointKey]

(* The scenario of C25: no device state, and the vendor returns one valid  *)
(* Moving record and one record without latitude.                          *)
Scenario ==
    /\ response.kind = "envelope"
    /\ response.DataSet =
          <<Row(9, Str("s1"), Str("10:00"), Str("Moving"), Num(40), Num(-74)),
            NoLatitudeRow>>
    /\ \A x \in Sensors : store0[DeviceKey(x)] = Absent

(* C25: in that scenario the conversion yields exactly one observation, it *)
(* is forwarded, one batch of size 1 is sent, and the checkpoint becomes   *)
(* the MaxGmtUpdateTime of the response.                                   *)
C25_EndToEnd ==
    Scenario =>
        /\ Len(observations) = 1
        /\ observations[1].source = "s1"
        /\ filtered = observations
        /\ store[DeviceKey("s1")] = StoredState("Moving")
        /\ pc = "send" => batches = <<observations>>
        /\ pc = "checkpoint" => (batches = <<>> /\ Len(sends) = 1)
        /\ CycleReturned =>
              /\ Len(sends) = 1
              /\ sends[1].batch = observations
              /\ sends[1].accepted
              /\ store[CheckpointKey].value =
                    [last_updated_time |-> response.MaxGmtUpdateTime]

C25_Witness ==
    /\ Scenario
    /\ CycleReturned
    /\ Len(sends) = 1
    /\ Len(sends[1].batch) = 1
    /\ store0[CheckpointKey] = Absent
    /\ store[CheckpointKey].value = [last_updated_time |-> VendorStamp(12)]

(* The device states as the filter of the cycle left them: for every       *)
(* sensor the last state the filter wrote, else what the cycle found.      *)
RECURSIVE LastWrite(_, _, _)
LastWrite(sensor_id, lo, hi) ==
    IF lo > hi THEN 0
    ELSE IF lo = hi
    THEN IF trace[lo].obs.source = sensor_id /\ trace[lo].writes # <<>> THEN lo ELSE 0
    ELSE LET mid == (lo + hi) \div 2
             upper == LastWrite(sensor_id, mid + 1, hi)
         IN  IF upper # 0 THEN upper ELSE LastWrite(sensor_id, lo, mid)

StoreAfterFilter ==
    [k \in Keys |->
        LET j == LastWrite(k[3], 1, Len(trace))
        IN  IF k[1] = Integration /\ j # 0
            THEN [value |-> trace[j].writes[1][2], ttl |-> trace[j].writes[1][3]]
            ELSE store0[k]]

(* C29: the steps of a cycle come in the order window, fetch, convert,     *)
(* filter, emit, checkpoint: while the fetch is awaited the window is set  *)
(* from the checkpoint read and nothing is written or sent; a failed or    *)
(* empty fetch leaves it so; every sink call comes after the filter has    *)
(* processed every observation, and the sends write nothing; the           *)
(* checkpoint write comes last, once, on top of what the filter left.      *)
C29_StepOrder ==
    /\ pc = "fetch" =>
          /\ request.start = start
          /\ store = store0
          /\ observations = <<>>
          /\ trace = <<>>
          /\ sends = <<>>
    /\ (pc = "idle" /\ response.kind \in {"raise", "falsy"}) =>
          /\ store = store0
          /\ sends = <<>>
    /\ sends # <<>> =>
          /\ response.kind = "envelope"
          /\ Len(trace) = Len(observations)
    /\ (pc \in {"send", "checkpoint"} \/ CycleRaised) => store = StoreAfterFilter
    /\ (CycleReturned /\ response.kind = "envelope") =>
          /\ batches = <<>>
          /\ \A i \in 1..Len(sends) : sends[i].accepted
          /\ store = [StoreAfterFilter EXCEPT ![CheckpointKey] =
                        [value |-> [last_updated_time |-> response.MaxGmtUpdateTime],
                         ttl |-> NoTTL]]

C29_Witness ==
    /\ CycleReturned
    /\ Len(sends) = 1
    /\ Len(trace) = 2
    /\ store[DeviceKey("s2")] # store0[DeviceKey("s2")]
    /\ store0[CheckpointKey].value = [last_updated_time |-> VendorStamp(12)]
    /\ store[CheckpointKey].value = [last_updated_time |-> VendorStamp(9)]

(* C30: for an observation whose status is the stored status and of the    *)
(* quiet class, the filter writes a secondary entry with a time-to-live of *)
(* 600, whether or not it forwards, and forwards exactly when the          *)
(* recorded_at differs from the one last seen for the sensor.              *)
C30_QuietSecondaryEntry ==
    \A j \in 1..Len(trace) :
        (/\ trace[j].before = StoredState(StatusOf(trace[j].obs))
         /\ StatusOf(trace[j].obs) \in QuietStatuses) =>
            /\ \E k \in 1..Len(trace[j].writes) : trace[j].writes[k][3] = 600
            /\ LET i == Prev(j, j - 1)
               IN  i # 0 =>
                     (trace[j].forwarded <=>
                        trace[j].obs.recorded_at # trace[i].obs.recorded_at)

---------------------------------------------------------------------------
(* Properties of client.get_observations (SpecClient), continued.          *)

PassesGate(r) ==
    /\ PyTruthy(r.sensor_id)
    /\ PyTruthy(r.latitude)
    /\ PyTruthy(r.longitude)
    /\ PyTruthy(r.time)

(* C22: every record that passes the validity gate becomes an observation, *)
(* whatever its status.                                                    *)
C22_ObservationForEveryStatus ==
    (/\ EnvelopeAnswered
     /\ http.body.CommonResult.ResultCode = 0
     /\ cresult.kind = "return") =>
        LET dataset == http.body.CommonResult.DataSet
        IN  /\ Len(cresult.value) =
                  Cardinality({i \in 1..Len(dataset) : PassesGate(dataset[i])})
            /\ \A i \in 1..Len(dataset) :
                  PassesGate(dataset[i]) =>
                      \E k \in 1..Len(cresult.value) :
                          cresult.value[k].additional.status = dataset[i].status.v

(* C23: a nine-field record that passes the validity gate becomes one      *)
(* observation whose recorded_at keeps the vendor's wall clock and carries *)
(* the configured gmt_offset as whole hours, for every offset -12..12.     *)
C23_RecordedAtCarriesOffset ==
    (/\ conversion.kind = "done"
     /\ conversion.record.arity = 9
     /\ PassesGate(CsvRow(conversion.record))) =>
        /\ conversion.out.kind = "ok"
        /\ Len(conversion.out.observations) = 1
        /\ LET iso == IsoFormat(conversion.out.observations[1].recorded_at)
               g == conversion.gmt_offset
           IN  /\ iso.wall = dateparser_parse(CsvRow(conversion.record).time.v)
               /\ iso.wall # None
               /\ iso.offset = [sign |-> IF g < 0 THEN "-" ELSE "+",
                                hh |-> Abs(g), mm |-> 0]

(* Offset 0 and 10:00 give T10:00:00+00:00.                                *)
C23_Witness ==
    /\ conversion.kind = "done"
    /\ conversion.gmt_offset = 0
    /\ conversion.out.kind = "ok"
    /\ Len(conversion.out.observations) = 1
    /\ IsoFormat(conversion.out.observations[1].recorded_at) =
          [wall |-> [hour |-> 10, minute |-> 0, second |-> 0],
           offset |-> [sign |-> "+", hh |-> 0, mm |-> 0]]

(* C24: action_auth answers instead of raising when the fetch ends with a  *)
(* vendor failure or an HTTP status error: valid_credentials true on       *)
(* success, false with the failure's message and code on the three vendor  *)
(* failures, error with the status code on a raw HTTP status error.        *)
C24_AuthNeverRaises ==
    auth.kind = "done" =>
        LET o == auth.outcome
            r == auth.result
        IN  /\ o.kind = "return" => r = Return([valid_credentials |-> TRUE])
            /\ (o.kind = "raise" /\ o.exc \in AuthFailures) =>
                  r = Return([valid_credentials |-> FALSE,
                              message |-> o.message, code |-> o.code])
            /\ (o.kind = "raise" /\ o.exc = "HTTPStatusError") =>
                  r = Return([error |-> TRUE, status_code |-> o.status_code])

(* The fetch gave up on the rate limit and action_auth answered with it.   *)
C24_Witness ==
    /\ auth.kind = "done"
    /\ auth.outcome.kind = "raise"
    /\ auth.outcome.exc = "GalooliTooManyRequestsException"
    /\ auth.result = Return([valid_credentials |-> FALSE,
                             message |-> auth.outcome.message,
                             code |-> TooManyRequestsCode])

FilterReturned(p) == procs[p].phase \in {"checkpoint", "done"}

DuplicateForward(e) == Truthy(e.before) /\ DictGet(e.before, "status") = e.status

(* C27: with the evaluations of a sensor serialized, every forward is a    *)
(* change of the sensor's stored status, so no transition is forwarded     *)
(* twice.                                                                  *)
C27_SerializedForwardsOnce ==
    mode.schedule = "serialized" =>
        \A i \in 1..Len(flog) : ~DuplicateForward(flog[i])

(* Two interleaved cycles of one integration: both read the old status and *)
(* both forward the same transition.                                       *)
C27_Witness ==
    /\ mode.schedule = "interleaved"
    /\ procs[1].integration_id = procs[2].integration_id
    /\ \E i, j \in 1..Len(flog) :
          /\ i < j
          /\ flog[i].proc # flog[j].proc
          /\ flog[i].source = flog[j].source
          /\ flog[i].status = flog[j].status
          /\ flog[i].read = flog[j].read
          /\ ~DuplicateForward(flog[i])
          /\ DuplicateForward(flog[j])

(* C28: a cycle reads and writes only keys of its own integration, a       *)
(* sensor's state is written under the key it was read under, and a cycle  *)
(* running beside a cycle of another integration forwards what it would    *)
(* forward alone.                                                          *)
C28_IntegrationsIsolated ==
    mode.schedule \in {"serialized", "interleaved"} =>
        /\ \A p \in Procs : \A k \in procs[p].touched :
              k[1] = procs[p].integration_id /\ k[2] = PullAction
        /\ \A i \in 1..Len(flog) :
              flog[i].written \subseteq
                  {<<flog[i].integration_id, PullAction, flog[i].source>>}
        /\ procs[1].integration_id # procs[2].integration_id =>
              \A p \in Procs : FilterReturned(p) =>
                  procs[p].filtered =
                      filter_observations_by_device_status(
                          StoreWith(mode.before), procs[p].integration_id,
                          procs[p].observations).filtered

(* The same sensor, the same status, forwarded once by each integration.   *)
C28_Witness ==
    /\ mode.schedule = "interleaved"
    /\ procs[1].integration_id # procs[2].integration_id
    /\ procs[1].phase = "done" /\ procs[2].phase = "done"
    /\ \E i, j \in 1..Len(flog) :
          /\ flog[i].proc = 1 /\ flog[j].proc = 2
          /\ flog[i].source = flog[j].source
          /\ flog[i].status = flog[j].status
          /\ flog[i].written # {} /\ flog[j].written # {}

(* C31: in every poll cycle the window start is not later than the wall    *)
(* clock of the cycle, whether it comes from the look-back hours or from   *)
(* the checkpoint.                                                         *)
C31_StartNotAfterNow ==
    pc # "idle" => start.t <= now.t

(* C32: a cycle whose fetch gave an envelope and whose filter forwarded    *)
(* nothing (no record passed the validity gate, or every observation was   *)
(* suppressed) makes no sink call, returns observations_extracted = 0 and  *)
(* stores the response's MaxGmtUpdateTime as the checkpoint.               *)
C32_NothingSentStillAdvances ==
    (CycleReturned /\ response.kind = "envelope" /\ filtered = <<>>) =>
        /\ sends = <<>>
        /\ result = Returned(0)
        /\ store[CheckpointKey] =
              [value |-> [last_updated_time |-> response.MaxGmtUpdateTime],
               ttl |-> NoTTL]

(* Every observation of the cycle was suppressed and the checkpoint moved. *)
C32_Witness ==
    /\ CycleReturned
    /\ response.kind = "envelope"
    /\ observations # <<>>
    /\ filtered = <<>>
    /\ sends = <<>>
    /\ store[CheckpointKey] # store0[CheckpointKey]
    /\ store[CheckpointKey].value = [last_updated_time |-> response.MaxGmtUpdateTime]

(* No record of a non-empty DataSet passed the validity gate.              *)
C32_NoValidRecord ==
    /\ CycleReturned
    /\ response.kind = "envelope"
    /\ response.DataSet # <<>>
    /\ observations = <<>>
    /\ sends = <<>>
    /\ store[CheckpointKey] # store0[CheckpointKey]

(* The observations of one sensor, in input order.                         *)
OfSensor(obsSeq, sensor_id) == SelectSeq(obsSeq, LAMBDA o : o.source = sensor_id)

(* The forward/suppress decisions of a run for the observations of one     *)
(* sensor, in input order.                                                 *)
DecisionsFor(out, sensor_id) ==
    LET mine == SelectSeq(out.trace, LAMBDA e : e.obs.source = sensor_id)
    IN  [i \in 1..Len(mine) |-> mine[i].forwarded]

(* The persisted state with every other sensor's entry removed.            *)
OnlySensor(st, sensor_id) ==
    [k \in Keys |-> IF k[3] = sensor_id THEN st[k] ELSE Absent]

(* C33: the decisions taken for the observations of a sensor are those the *)
(* filter takes when it is given that sensor's observations alone, on that *)
(* sensor's stored state alone: observations and state of other sensors do *)
(* not enter.                                                              *)
C33_IndependentAcrossSensors ==
    fcall.kind = "done" =>
        \A s \in Sensors :
            LET alone == filter_observations_by_device_status(
                             OnlySensor(fcall.st, s), Integration,
                             OfSensor(fcall.observations, s))
            IN  /\ DecisionsFor(fcall.out, s) = DecisionsFor(alone, s)
                /\ OfSensor(fcall.out.filtered, s) = alone.filtered
                /\ fcall.out.store[DeviceKey(s)] = alone.store[DeviceKey(s)]

(* A sensor's observations with another sensor's in between, the other     *)
(* sensor having stored state: one forwarded, one suppressed.              *)
C33_Witness ==
    /\ fcall.kind = "done"
    /\ Len(fcall.observations) = 3
    /\ fcall.observations[1].source = "s1"
    /\ fcall.observations[2].source = "s2"
    /\ fcall.observations[3].source = "s1"
    /\ Truthy(fcall.st[DeviceKey("s2")].value)
    /\ DecisionsFor(fcall.out, "s1") = <<TRUE, FALSE>>
    /\ DecisionsFor(fcall.out, "s2") = <<TRUE>>

Last(q) == q[Len(q)]

(* C35: right after the filter has processed an observation, forwarded or  *)
(* suppressed, the stored status of its sensor is the observation's        *)
(* status; after the run the stored status of every sensor of the input is *)
(* the status of its last observation.                                     *)
C35_StoredStatusIsLastSeen ==
    fcall.kind = "done" =>
        /\ Len(fcall.out.trace) = Len(fcall.observations)
        /\ \A i \in 1..Len(fcall.out.trace) :
              /\ fcall.out.trace[i].obs = fcall.observations[i]
              /\ fcall.out.trace[i].after =
                    StoredState(StatusOf(fcall.observations[i]))
        /\ \A s \in Sensors :
              OfSensor(fcall.observations, s) # <<>> =>
                  fcall.out.store[DeviceKey(s)] =
                      StoredState(StatusOf(Last(OfSensor(fcall.observations, s))))

(* A run that forwarded a change and suppressed a repetition, ending with  *)
(* the last status stored.                                                 *)
C35_Witness ==
    /\ fcall.kind = "done"
    /\ Len(fcall.observations) = 3
    /\ OfSensor(fcall.observations, "s1") = fcall.observations
    /\ DecisionsFor(fcall.out, "s1") = <<FALSE, TRUE, FALSE>>
    /\ fcall.out.store[DeviceKey("s1")] = StoredState(StatusOf(fcall.observations[3]))
    /\ fcall.st[DeviceKey("s1")] # fcall.out.store[DeviceKey("s1")]

RECURSIVE IsSubsequence(_, _)
IsSubsequence(sub, full) ==
    IF sub = <<>> THEN TRUE
    ELSE IF full = <<>> THEN FALSE
    ELSE IF Head(sub) = Head(full) THEN IsSubsequence(Tail(sub), Tail(full))
    ELSE IsSubsequence(sub, Tail(full))

(* C36: the returned list is the input with some observations left out,    *)
(* in input order; it is empty for empty input; and of one sensor it never *)
(* holds two observations in a row with the same status.                   *)
C36_OrderedSubsequence ==
    fcall.kind = "done" =>
        /\ IsSubsequence(fcall.out.filtered, fcall.observations)
        /\ fcall.out.filtered =
              [i \in 1..Len(fcall.out.filtered) |->
                  SelectSeq(fcall.out.trace, LAMBDA e : e.forwarded)[i].obs]
        /\ fcall.observations = <<>> => fcall.out.filtered = <<>>
        /\ \A s \in Sensors :
              LET mine == OfSensor(fcall.out.filtered, s)
              IN  \A i \in 1..(Len(mine) - 1) :
                      StatusOf(mine[i]) # StatusOf(mine[i + 1])

(* One sensor three times in one input, with another sensor in between:    *)
(* the repetition is left out and the order is kept.                       *)
C36_Witness ==
    /\ fcall.kind = "done"
    /\ Len(fcall.observations) = 3
    /\ fcall.observations[1].source = "s1"
    /\ fcall.observations[2].source = "s2"
    /\ fcall.observations[3].source = "s1"
    /\ StatusOf(fcall.observations[1]) # StatusOf(fcall.observations[3])
    /\ fcall.out.filtered = fcall.observations

(* The same sensor twice in a row with the same status: one is returned.   *)
C36_RepetitionLeftOut ==
    /\ fcall.kind = "done"
    /\ Len(fcall.observations) = 3
    /\ OfSensor(fcall.observations, "s1") = fcall.observations
    /\ StatusOf(fcall.observations[1]) = StatusOf(fcall.observations[2])
    /\ fcall.out.filtered = <<fcall.observations[1], fcall.observations[3]>>

Cancelled == pc = "idle" /\ result.kind = "raised" /\ result.exc = "CancelledError"

(* C34: a cycle cancelled while it awaits the fetch or a batch send leaves *)
(* the checkpoint as it was, and every device state the filter wrote       *)
(* before the cancellation stays as written.                               *)
C34_CancelKeepsCheckpointAndWrites ==
    Cancelled =>
        /\ store[CheckpointKey] = store0[CheckpointKey]
        /\ store = StoreAfterFilter
        /\ \A i \in 1..Len(trace) :
              trace[i].writes # <<>> =>
                  Truthy(store[DeviceKey(trace[i].obs.source)].value)
        /\ result.at = "fetch" => (trace = <<>> /\ store = store0 /\ sends = <<>>)

(* Cancelled in the second send: a batch was sent, device states were      *)
(* written, the checkpoint of the earlier cycle is still the stored one.   *)
C34_Witness ==
    /\ Cancelled
    /\ result.at = "send"
    /\ Len(sends) = 2
    /\ store # store0
    /\ \E i \in 1..Len(trace) : trace[i].writes # <<>>
    /\ Truthy(store0[CheckpointKey].value)
    /\ store[CheckpointKey] = store0[CheckpointKey]

(* Cancelled while the fetch was awaited.                                  *)
C34_CancelledInFetch ==
    /\ Cancelled
    /\ result.at = "fetch"
    /\ Truthy(store[CheckpointKey].value)

(* C37: action_auth leaves the persisted state as it found it: whatever    *)
(* its fetch ends with, the checkpoint and the device states keep their    *)
(* values and nothing is sent to the sink.                                 *)
C37_AuthLeavesStateAlone ==
    /\ store = store0
    /\ sends = <<>>
    /\ batches = <<>>
    /\ observations_extracted = 0

(* A successful credential check on an integration with a checkpoint and a *)
(* device state stored.                                                    *)
C37_Witness ==
    /\ auth.kind = "done"
    /\ auth.result = Return([valid_credentials |-> TRUE])
    /\ Truthy(store[CheckpointKey].value)
    /\ Truthy(store[DeviceKey("s1")].value)
    /\ store = store0

====
